---- MODULE Spec2Model ----
(***************************************************************************)
(* Model of stock_tracker.py: the StockDatabase class (a SQLite table      *)
(* "tickers" with an AUTOINCREMENT primary key and a UNIQUE symbol column) *)
(* and the calls made on it.                                               *)
(*                                                                         *)
(* Text is modelled as a sequence of character codes, so that str.upper()  *)
(* and the BINARY collation of ORDER BY are computed, not assumed.         *)
(***************************************************************************)
EXTENDS Integers, Sequences, FiniteSets, TLC

\* ------------------------------------------------------------------ bounds
\* Largest rowid the model lets the table hand out.
MaxId == 2
\* Largest value of CURRENT_TIMESTAMP (whole seconds) the model reaches.
MaxClock == 1

\* ------------------------------------------------------------------ text
aapl == <<97, 97, 112, 108>>
AAPL == <<65, 65, 80, 76>>
ibm == <<105, 98, 109>>
Blank == <<>>
TechGiant == <<116, 101, 99, 104, 32, 103, 105, 97, 110, 116>>
NewNote == <<110, 101, 119, 32, 110, 111, 116, 101>>

\* The symbols a caller passes to add_ticker / update_ticker.
SymbolInputs == {Blank, aapl, AAPL, ibm}

\* The notes a caller passes to add_ticker, and those it passes to
\* update_ticker.
AddNotes == {TechGiant}
UpdateNotes == {NewNote}

\* The ids a caller passes to update_ticker / delete_ticker.
IdInputs == 0..MaxId

\* str.upper() on one character of the alphabet in use (ASCII).
UpperChar(c) == IF c >= 97 /\ c <= 122 THEN c - 32 ELSE c

\* str.upper(): symbol.upper() in add_ticker and update_ticker.
Upper(s) == [i \in 1..Len(s) |-> UpperChar(s[i])]

\* SQLite's BINARY collation on TEXT: memcmp of the common prefix, then the
\* shorter string first.
LexLess(a, b) ==
    \E k \in 1..Len(b) :
        /\ \A j \in 1..(k - 1) : j <= Len(a) /\ a[j] = b[j]
        /\ (k > Len(a) \/ a[k] < b[k])

\* ------------------------------------------------------------------ state
VARIABLES
    table,      \* tickers: rowid -> [symbol, notes, created_at, updated_at]
    seq,        \* sqlite_sequence.seq for "tickers" (AUTOINCREMENT)
    clock,      \* what CURRENT_TIMESTAMP returns now (whole seconds)
    lastCall,   \* the latest step: the StockDatabase call, its arguments, its result
    assigned,   \* history: every rowid an INSERT has ever been given
    pc,         \* StockTrackerTUI: the read the console is blocked in
    current_row,\* StockTrackerTUI.current_row, the highlighted menu item
    local,      \* the local variables of the screen method being run
    message,    \* the message show_message is displaying
    visit       \* history of the current screen visit: store calls, reads, waits

\* The console's variables.
tui == <<pc, current_row, local, message, visit>>

vars == <<table, seq, clock, lastCall, assigned, pc, current_row, local, message, visit>>

Ids(tbl) == DOMAIN tbl

SetMax(S) == CHOOSE m \in S : \A x \in S : x <= m

\* The locals of a screen method before it has assigned any.
NoLocal == [symbol |-> Blank, ticker_id |-> 0, old_symbol |-> Blank,
            old_notes |-> Blank, typed_symbol |-> Blank, typed_notes |-> Blank,
            new_symbol |-> Blank, new_notes |-> Blank]

\* The history of a screen visit that has not begun.
NoVisit == [screen |-> "none", calls |-> <<>>, reads |-> 0, waits |-> 0]

NoCall == [op |-> "init", key |-> 0, typed |-> Blank, id |-> 0, symbol |-> Blank, notes |-> Blank,
           ret |-> TRUE, path |-> "none", rows |-> <<>>]

\* ------------------------------------------------------------------ schema
\* The schema without the UNIQUE constraint on symbol.
UniqueViolation_off(tbl, sym, self) == FALSE

\* symbol TEXT NOT NULL UNIQUE: would writing sym into row `self` collide
\* with another row?  (self = 0 for an INSERT.)
UniqueViolation(tbl, sym, self) ==
    \E i \in Ids(tbl) : i # self /\ tbl[i].symbol = sym

\* A plain INTEGER PRIMARY KEY (no AUTOINCREMENT): one more than the largest
\* rowid now in the table.
NextRowid_noauto(tbl, sq) ==
    (IF Ids(tbl) = {} THEN 0 ELSE SetMax(Ids(tbl))) + 1

\* id INTEGER PRIMARY KEY AUTOINCREMENT: one more than the largest rowid the
\* table has ever held.
NextRowid(tbl, sq) ==
    (IF Ids(tbl) = {} THEN sq ELSE IF SetMax(Ids(tbl)) > sq THEN SetMax(Ids(tbl)) ELSE sq) + 1

\* ------------------------------------------------------------------ calls
\* init_database written as DROP TABLE + CREATE TABLE: rows and counter are
\* lost.
init_database_recreate(tbl, sq) == [table |-> <<>>, seq |-> 0]

\* StockDatabase.init_database: CREATE TABLE IF NOT EXISTS tickers (...); the
\* table exists from construction on, so the statement changes nothing.
init_database(tbl, sq) == [table |-> tbl, seq |-> sq]

\* add_ticker binding symbol instead of symbol.upper().
add_ticker_raw(tbl, sq, now, symbol, notes) ==
    IF UniqueViolation(tbl, symbol, 0)
    THEN [table |-> tbl, seq |-> sq, ret |-> FALSE, path |-> "IntegrityError",
          id |-> 0]
    ELSE LET id == NextRowid(tbl, sq)
             row == [symbol |-> symbol, notes |-> notes,
                     created_at |-> now, updated_at |-> now]
         IN [table |-> [i \in Ids(tbl) \cup {id} |-> IF i = id THEN row ELSE tbl[i]],
             seq |-> id, ret |-> TRUE, path |-> "inserted", id |-> id]

\* add_ticker written as INSERT OR REPLACE: the colliding row is deleted and
\* the new one inserted.
add_ticker_replace(tbl, sq, now, symbol, notes) ==
    LET sym == Upper(symbol)
        keep == {i \in Ids(tbl) : tbl[i].symbol # sym}
        id == NextRowid(tbl, sq)
        row == [symbol |-> sym, notes |-> notes,
                created_at |-> now, updated_at |-> now]
    IN [table |-> [i \in keep \cup {id} |-> IF i = id THEN row ELSE tbl[i]],
        seq |-> id, ret |-> TRUE, path |-> "inserted", id |-> id]

\* StockDatabase.add_ticker: INSERT INTO tickers (symbol, notes) with both
\* timestamps defaulting to CURRENT_TIMESTAMP; IntegrityError -> False.
add_ticker(tbl, sq, now, symbol, notes) ==
    LET sym == Upper(symbol) IN
    IF UniqueViolation(tbl, sym, 0)
    THEN [table |-> tbl, seq |-> sq, ret |-> FALSE, path |-> "IntegrityError",
          id |-> 0]
    ELSE LET id == NextRowid(tbl, sq)
             row == [symbol |-> sym, notes |-> notes,
                     created_at |-> now, updated_at |-> now]
         IN [table |-> [i \in Ids(tbl) \cup {id} |-> IF i = id THEN row ELSE tbl[i]],
             seq |-> id, ret |-> TRUE, path |-> "inserted", id |-> id]

\* The SELECT without ORDER BY: rows come back in rowid order.
RECURSIVE OrderBySymbol_rowid(_, _)
OrderBySymbol_rowid(tbl, ids) ==
    IF ids = {} THEN <<>>
    ELSE LET first == CHOOSE i \in ids : \A j \in ids : i <= j
         IN <<<<first, tbl[first].symbol, tbl[first].notes>>>>
                \o OrderBySymbol_rowid(tbl, ids \ {first})

\* ORDER BY symbol: the rows of ids, smallest symbol first (rowid breaks a tie).
RECURSIVE OrderBySymbol(_, _)
OrderBySymbol(tbl, ids) ==
    IF ids = {} THEN <<>>
    ELSE LET first == CHOOSE i \in ids : \A j \in ids \ {i} :
                          \/ LexLess(tbl[i].symbol, tbl[j].symbol)
                          \/ (tbl[i].symbol = tbl[j].symbol /\ i < j)
         IN <<<<first, tbl[first].symbol, tbl[first].notes>>>>
                \o OrderBySymbol(tbl, ids \ {first})

\* StockDatabase.get_all_tickers: SELECT id, symbol, notes ... ORDER BY symbol.
get_all_tickers(tbl) == OrderBySymbol(tbl, Ids(tbl))

\* update_ticker treating a blank symbol as "keep the stored one".
update_ticker_keepblank(tbl, now, ticker_id, symbol, notes) ==
    IF ticker_id \notin Ids(tbl)
    THEN [table |-> tbl, ret |-> FALSE, path |-> "rowcount=0"]
    ELSE LET sym == IF symbol = Blank THEN tbl[ticker_id].symbol ELSE Upper(symbol) IN
         IF UniqueViolation(tbl, sym, ticker_id)
         THEN [table |-> tbl, ret |-> FALSE, path |-> "IntegrityError"]
         ELSE [table |-> [tbl EXCEPT ![ticker_id].symbol = sym,
                                     ![ticker_id].notes = notes,
                                     ![ticker_id].updated_at = now],
               ret |-> TRUE, path |-> "rowcount>0"]

\* update_ticker returning rowcount >= 0.
update_ticker_rowcount(tbl, now, ticker_id, symbol, notes) ==
    LET sym == Upper(symbol) IN
    IF ticker_id \notin Ids(tbl)
    THEN [table |-> tbl, ret |-> TRUE, path |-> "rowcount=0"]
    ELSE IF UniqueViolation(tbl, sym, ticker_id)
    THEN [table |-> tbl, ret |-> FALSE, path |-> "IntegrityError"]
    ELSE [table |-> [tbl EXCEPT ![ticker_id].symbol = sym,
                                ![ticker_id].notes = notes,
                                ![ticker_id].updated_at = now],
          ret |-> TRUE, path |-> "rowcount>0"]

\* update_ticker that also sets created_at = CURRENT_TIMESTAMP.
update_ticker_created(tbl, now, ticker_id, symbol, notes) ==
    LET sym == Upper(symbol) IN
    IF ticker_id \notin Ids(tbl)
    THEN [table |-> tbl, ret |-> FALSE, path |-> "rowcount=0"]
    ELSE IF UniqueViolation(tbl, sym, ticker_id)
    THEN [table |-> tbl, ret |-> FALSE, path |-> "IntegrityError"]
    ELSE [table |-> [tbl EXCEPT ![ticker_id].symbol = sym,
                                ![ticker_id].notes = notes,
                                ![ticker_id].created_at = now,
                                ![ticker_id].updated_at = now],
          ret |-> TRUE, path |-> "rowcount>0"]

\* update_ticker whose WHERE clause covers only the symbol: notes and
\* updated_at are written to every row.
update_ticker_allrows(tbl, now, ticker_id, symbol, notes) ==
    LET sym == Upper(symbol) IN
    IF ticker_id \notin Ids(tbl)
    THEN [table |-> tbl, ret |-> FALSE, path |-> "rowcount=0"]
    ELSE IF UniqueViolation(tbl, sym, ticker_id)
    THEN [table |-> tbl, ret |-> FALSE, path |-> "IntegrityError"]
    ELSE [table |-> [i \in Ids(tbl) |->
                        [symbol |-> IF i = ticker_id THEN sym ELSE tbl[i].symbol,
                         notes |-> notes,
                         created_at |-> tbl[i].created_at,
                         updated_at |-> now]],
          ret |-> TRUE, path |-> "rowcount>0"]

\* update_ticker as two statements without a rollback: notes and updated_at
\* are written, then the symbol write raises IntegrityError.
update_ticker_partial(tbl, now, ticker_id, symbol, notes) ==
    LET sym == Upper(symbol) IN
    IF ticker_id \notin Ids(tbl)
    THEN [table |-> tbl, ret |-> FALSE, path |-> "rowcount=0"]
    ELSE IF UniqueViolation(tbl, sym, ticker_id)
    THEN [table |-> [tbl EXCEPT ![ticker_id].notes = notes,
                                ![ticker_id].updated_at = now],
          ret |-> FALSE, path |-> "IntegrityError"]
    ELSE [table |-> [tbl EXCEPT ![ticker_id].symbol = sym,
                                ![ticker_id].notes = notes,
                                ![ticker_id].updated_at = now],
          ret |-> TRUE, path |-> "rowcount>0"]

\* StockDatabase.update_ticker: UPDATE ... WHERE id = ?; rowcount > 0 is the
\* result, IntegrityError (rolled back by the connection context) -> False.
update_ticker(tbl, now, ticker_id, symbol, notes) ==
    LET sym == Upper(symbol) IN
    IF ticker_id \notin Ids(tbl)
    THEN [table |-> tbl, ret |-> FALSE, path |-> "rowcount=0"]
    ELSE IF UniqueViolation(tbl, sym, ticker_id)
    THEN [table |-> tbl, ret |-> FALSE, path |-> "IntegrityError"]
    ELSE [table |-> [tbl EXCEPT ![ticker_id].symbol = sym,
                                ![ticker_id].notes = notes,
                                ![ticker_id].updated_at = now],
          ret |-> TRUE, path |-> "rowcount>0"]

\* delete_ticker returning rowcount >= 0.
delete_ticker_always(tbl, ticker_id) ==
    IF ticker_id \in Ids(tbl)
    THEN [table |-> [i \in Ids(tbl) \ {ticker_id} |-> tbl[i]], ret |-> TRUE]
    ELSE [table |-> tbl, ret |-> TRUE]

\* StockDatabase.delete_ticker: DELETE FROM tickers WHERE id = ?.
delete_ticker(tbl, ticker_id) ==
    IF ticker_id \in Ids(tbl)
    THEN [table |-> [i \in Ids(tbl) \ {ticker_id} |-> tbl[i]], ret |-> TRUE]
    ELSE [table |-> tbl, ret |-> FALSE]

\* ------------------------------------------------------------------ actions
\* A second passes on the wall clock CURRENT_TIMESTAMP reads (it never goes
\* back).
Tick ==
    /\ clock < MaxClock
    /\ clock' = clock + 1
    /\ lastCall' = [NoCall EXCEPT !.op = "tick"]
    /\ UNCHANGED <<table, seq, assigned, tui>>

\* A caller invokes db.init_database() again.
Initialize ==
    LET r == init_database(table, seq) IN
    /\ table' = r.table
    /\ seq' = r.seq
    /\ lastCall' = [NoCall EXCEPT !.op = "init_database"]
    /\ UNCHANGED <<clock, assigned, tui>>

\* A caller invokes db.add_ticker(symbol, notes).
Add ==
    \E symbol \in SymbolInputs, notes \in AddNotes :
        LET r == add_ticker(table, seq, clock, symbol, notes) IN
        /\ r.id <= MaxId
        /\ table' = r.table
        /\ seq' = r.seq
        /\ lastCall' = [NoCall EXCEPT !.op = "add", !.symbol = symbol,
                            !.notes = notes, !.ret = r.ret, !.path = r.path,
                            !.id = r.id]
        /\ assigned' = IF r.ret THEN assigned \cup {r.id} ELSE assigned
        /\ UNCHANGED <<clock, tui>>

\* A caller invokes db.get_all_tickers().
List ==
    /\ lastCall' = [NoCall EXCEPT !.op = "list", !.rows = get_all_tickers(table)]
    /\ UNCHANGED <<table, seq, clock, assigned, tui>>

\* A caller invokes db.update_ticker(ticker_id, symbol, notes).
Update ==
    \E ticker_id \in IdInputs, symbol \in SymbolInputs, notes \in UpdateNotes :
        LET r == update_ticker(table, clock, ticker_id, symbol, notes) IN
        /\ table' = r.table
        /\ lastCall' = [NoCall EXCEPT !.op = "update", !.id = ticker_id,
                            !.symbol = symbol, !.notes = notes,
                            !.ret = r.ret, !.path = r.path]
        /\ UNCHANGED <<seq, clock, assigned, tui>>

\* A caller invokes db.delete_ticker(ticker_id).
Delete ==
    \E ticker_id \in IdInputs :
        LET r == delete_ticker(table, ticker_id) IN
        /\ table' = r.table
        /\ lastCall' = [NoCall EXCEPT !.op = "delete", !.id = ticker_id,
                            !.ret = r.ret]
        /\ UNCHANGED <<seq, clock, assigned, tui>>

\* StockDatabase.__init__ on a fresh stocks.db: CREATE TABLE IF NOT EXISTS.
Init ==
    /\ table = <<>>
    /\ seq = 0
    /\ clock = 0
    /\ lastCall = NoCall
    /\ assigned = {}
    /\ pc = "menu"
    /\ current_row = 0
    /\ local = NoLocal
    /\ message = "none"
    /\ visit = NoVisit

Next == Tick \/ Initialize \/ Add \/ List \/ Update \/ Delete

Spec == Init /\ [][Next]_vars

\* ------------------------------------------------------------------ console
\* curses.KEY_UP, curses.KEY_DOWN and the ord() of the keys run() and
\* delete_ticker() compare with.
KEY_UP == 259
KEY_DOWN == 258
KeyEnter == 10
KeyLowerQ == 113
KeyUpperQ == 81
KeyLowerY == 121
KeyUpperY == 89
KeyLowerN == 110

\* len(self.menu_items).
NumItems == 5

\* len(self.menu_items) - 1, the last row KEY_DOWN stops at.
LastRow_off == NumItems

LastRow == NumItems - 1

\* The n of stdscr.getstr(y, x, 40).
InputLimit == 40

\* The keys pressed at the main menu, at the delete confirmation and at a
\* "Press any key" wait.
MenuKeys == {KEY_UP, KEY_DOWN, KeyEnter, KeyLowerQ, KeyUpperQ, KeyLowerN}
ConfirmKeys == {KeyLowerY, KeyUpperY, KeyLowerN, KeyLowerQ, KeyEnter}
AnyKeys == {KeyEnter, KeyLowerQ}

\* What is typed at "Ticker Symbol:" / "New Symbol:", at the notes prompts
\* and at the id prompts (" ", " q", "q", "-1", "0", "1", ...).
TypedSymbols == {Blank, <<32>>, aapl, <<32, 113>>}
TypedAddNotes == {Blank, TechGiant}
TypedEditNotes == {Blank, <<32>>, NewNote}
TypedIds == {Blank, <<113>>, <<45, 49>>} \cup {<<48 + n>> : n \in 0..MaxId}

\* str.isspace() on the characters in use.
IsSpace(c) == c \in {9, 10, 11, 12, 13, 32}

\* str.strip().
Strip(s) ==
    LET keep == {i \in 1..Len(s) : ~IsSpace(s[i])} IN
    IF keep = {} THEN <<>>
    ELSE SubSeq(s, CHOOSE i \in keep : \A j \in keep : i <= j, SetMax(keep))

\* StockTrackerTUI.get_input: getstr reads at most InputLimit bytes, the
\* bytes are decoded (ASCII: code for code) and stripped.
get_input(typed) ==
    Strip(SubSeq(typed, 1, IF Len(typed) < InputLimit THEN Len(typed) ELSE InputLimit))

\* The value of a string of decimal digits.
RECURSIVE DecValue(_)
DecValue(d) ==
    IF d = <<>> THEN 0 ELSE 10 * DecValue(SubSeq(d, 1, Len(d) - 1)) + (d[Len(d)] - 48)

\* The id check written with str.isdigit(): a sign is refused.
ParseInt_digits(t) ==
    LET ok == t # <<>> /\ \A i \in 1..Len(t) : t[i] >= 48 /\ t[i] <= 57
    IN [ok |-> ok, value |-> IF ok THEN DecValue(t) ELSE 0]

\* int(ticker_id_str): an optional sign and one or more decimal digits; any
\* other text raises ValueError.
ParseInt(t) ==
    LET signed == t # <<>> /\ t[1] \in {43, 45}
        digits == IF signed THEN Tail(t) ELSE t
        ok == digits # <<>> /\ \A i \in 1..Len(digits) : digits[i] >= 48 /\ digits[i] <= 57
    IN [ok |-> ok,
        value |-> IF ~ok THEN 0
                  ELSE IF signed /\ t[1] = 45 THEN 0 - DecValue(digits)
                  ELSE DecValue(digits)]

\* chr(confirm).lower() on the keys in use.
LowerChar(c) == IF c >= 65 /\ c <= 90 THEN c + 32 ELSE c

\* The visit history after one more store call, read of a prompt, or
\* show_message wait.
Called(v, op) == [v EXCEPT !.calls = Append(@, op)]
Read(v) == [v EXCEPT !.reads = @ + 1]
Waited(v) == [v EXCEPT !.waits = @ + 1]

\* A step of the console that calls nothing on the store: after a getch
\* that returned key, after a getstr that returned typed.
KeyStep(key) == [NoCall EXCEPT !.op = "none", !.key = key]
TextStep(typed) == [NoCall EXCEPT !.op = "none", !.typed = typed]

\* show_message without its getch: the message is drawn and the screen
\* method returns at once.
show_message_nowait(msg, v) ==
    /\ pc' = "menu"
    /\ message' = "none"
    /\ visit' = NoVisit

\* StockTrackerTUI.show_message: draw the message and block in getch (v is
\* the visit history up to the call).
show_message(msg, v) ==
    /\ pc' = "message"
    /\ message' = msg
    /\ visit' = Waited(v)

\* StockTrackerTUI.view_all_tickers, up to its wait in show_message("").
view_all_tickers(key) ==
    /\ lastCall' = [NoCall EXCEPT !.op = "list", !.key = key,
                        !.rows = get_all_tickers(table)]
    /\ show_message("", Called([NoVisit EXCEPT !.screen = "view"], "list"))
    /\ UNCHANGED <<table, seq, clock, assigned, current_row, local>>

\* Enter on Add, Edit or Delete: the screen method runs up to its first
\* get_input.
EnterScreen(key, screen, first) ==
    /\ pc' = first
    /\ visit' = [NoVisit EXCEPT !.screen = screen]
    /\ lastCall' = KeyStep(key)
    /\ UNCHANGED <<table, seq, clock, assigned, current_row, local, message>>

\* StockTrackerTUI.run: one pass of the loop, from the getch at the main
\* menu to the next blocking read.
MenuKey(key) ==
    /\ pc = "menu"
    /\ IF key = KEY_UP /\ current_row > 0
       THEN /\ current_row' = current_row - 1
            /\ lastCall' = KeyStep(key)
            /\ UNCHANGED <<table, seq, clock, assigned, pc, local, message, visit>>
       ELSE IF key = KEY_DOWN /\ current_row < LastRow
       THEN /\ current_row' = current_row + 1
            /\ lastCall' = KeyStep(key)
            /\ UNCHANGED <<table, seq, clock, assigned, pc, local, message, visit>>
       ELSE IF key = KeyEnter
       THEN CASE current_row = 0 -> view_all_tickers(key)
              [] current_row = 1 -> EnterScreen(key, "add", "add_symbol")
              [] current_row = 2 -> EnterScreen(key, "edit", "edit_id")
              [] current_row = 3 -> EnterScreen(key, "delete", "delete_id")
              [] current_row = 4 ->
                    /\ pc' = "exited"
                    /\ lastCall' = KeyStep(key)
                    /\ UNCHANGED <<table, seq, clock, assigned, current_row,
                                   local, message, visit>>
       ELSE IF key = KeyLowerQ \/ key = KeyUpperQ
       THEN /\ pc' = "exited"
            /\ lastCall' = KeyStep(key)
            /\ UNCHANGED <<table, seq, clock, assigned, current_row, local,
                           message, visit>>
       ELSE /\ lastCall' = KeyStep(key)
            /\ UNCHANGED <<table, seq, clock, assigned, tui>>

\* A "Press any key" wait that treats q and Q as quit.
MessageKey_quit(key) ==
    /\ pc = "message"
    /\ pc' = IF key = KeyLowerQ \/ key = KeyUpperQ THEN "exited" ELSE "menu"
    /\ local' = NoLocal
    /\ message' = "none"
    /\ visit' = NoVisit
    /\ lastCall' = KeyStep(key)
    /\ UNCHANGED <<table, seq, clock, assigned, current_row>>

\* The getch of show_message returns; the screen method returns to run(),
\* which draws the menu and blocks in its getch.
MessageKey(key) ==
    /\ pc = "message"
    /\ pc' = "menu"
    /\ local' = NoLocal
    /\ message' = "none"
    /\ visit' = NoVisit
    /\ lastCall' = KeyStep(key)
    /\ UNCHANGED <<table, seq, clock, assigned, current_row>>

\* add_ticker without the `if not symbol` check: a blank symbol goes on to
\* the notes prompt and the store.
AddSymbolRead_nocheck(typed) ==
    /\ pc = "add_symbol"
    /\ LET symbol == get_input(typed) IN
       /\ add_ticker(table, seq, clock, symbol, Blank).id <= MaxId
       /\ pc' = "add_notes"
       /\ local' = [local EXCEPT !.symbol = symbol]
       /\ visit' = Read(visit)
       /\ UNCHANGED message
    /\ lastCall' = TextStep(typed)
    /\ UNCHANGED <<table, seq, clock, assigned, current_row>>

\* StockTrackerTUI.add_ticker, from the symbol prompt to the next read.
AddSymbolRead(typed) ==
    /\ pc = "add_symbol"
    /\ LET symbol == get_input(typed) IN
       /\ symbol # <<>> => add_ticker(table, seq, clock, symbol, Blank).id <= MaxId
       /\ IF symbol = <<>>
          THEN /\ show_message("Operation cancelled.", Read(visit))
               /\ UNCHANGED local
          ELSE /\ pc' = "add_notes"
               /\ local' = [local EXCEPT !.symbol = symbol]
               /\ visit' = Read(visit)
               /\ UNCHANGED message
    /\ lastCall' = TextStep(typed)
    /\ UNCHANGED <<table, seq, clock, assigned, current_row>>

\* StockTrackerTUI.add_ticker, from the notes prompt: db.add_ticker and the
\* message for its result.
AddNotesRead(typed) ==
    /\ pc = "add_notes"
    /\ LET notes == get_input(typed)
           r == add_ticker(table, seq, clock, local.symbol, notes)
       IN /\ table' = r.table
          /\ seq' = r.seq
          /\ assigned' = IF r.ret THEN assigned \cup {r.id} ELSE assigned
          /\ lastCall' = [NoCall EXCEPT !.op = "add", !.typed = typed,
                              !.symbol = local.symbol,
                              !.notes = notes, !.ret = r.ret, !.path = r.path,
                              !.id = r.id]
          /\ show_message(IF r.ret THEN "added successfully!" ELSE "already exists!",
                          Called(Read(visit), "add"))
    /\ UNCHANGED <<clock, current_row, local>>

\* The first row of tickers whose id is ticker_id, or None (<<>>):
\* next((t for t in tickers if t[0] == ticker_id), None).
FindTicker(tickers, ticker_id) ==
    LET hits == {k \in 1..Len(tickers) : tickers[k][1] = ticker_id} IN
    IF hits = {} THEN <<>>
    ELSE tickers[CHOOSE k \in hits : \A j \in hits : k <= j]

\* StockTrackerTUI.edit_ticker, from the id prompt to the next read: the id
\* is parsed and looked up in db.get_all_tickers().
EditIdRead(typed) ==
    /\ pc = "edit_id"
    /\ LET ticker_id_str == get_input(typed)
           parsed == ParseInt(ticker_id_str)
           tickers == get_all_tickers(table)
           ticker_data == FindTicker(tickers, parsed.value)
       IN IF ticker_id_str = <<>>
          THEN /\ show_message("Operation cancelled.", Read(visit))
               /\ lastCall' = TextStep(typed)
               /\ UNCHANGED local
          ELSE IF ~parsed.ok
          THEN /\ show_message("Invalid ID. Must be a number.", Read(visit))
               /\ lastCall' = TextStep(typed)
               /\ UNCHANGED local
          ELSE IF ticker_data = <<>>
          THEN /\ show_message("not found.", Called(Read(visit), "list"))
               /\ lastCall' = [NoCall EXCEPT !.op = "list", !.typed = typed,
                                   !.rows = tickers]
               /\ local' = [local EXCEPT !.ticker_id = parsed.value]
          ELSE /\ pc' = "edit_symbol"
               /\ visit' = Called(Read(visit), "list")
               /\ lastCall' = [NoCall EXCEPT !.op = "list", !.typed = typed,
                                   !.rows = tickers]
               /\ local' = [local EXCEPT !.ticker_id = parsed.value,
                                         !.old_symbol = ticker_data[2],
                                         !.old_notes = ticker_data[3]]
               /\ UNCHANGED message
    /\ UNCHANGED <<table, seq, clock, assigned, current_row>>

\* edit_ticker without `if not new_symbol: new_symbol = old_symbol`.
EditSymbolRead_nodefault(typed) ==
    /\ pc = "edit_symbol"
    /\ LET new_symbol == get_input(typed) IN
       local' = [local EXCEPT !.typed_symbol = new_symbol,
                              !.new_symbol = new_symbol]
    /\ pc' = "edit_notes"
    /\ visit' = Read(visit)
    /\ lastCall' = TextStep(typed)
    /\ UNCHANGED <<table, seq, clock, assigned, current_row, message>>

\* StockTrackerTUI.edit_ticker, the "New Symbol:" prompt: blank keeps the
\* old symbol.
EditSymbolRead(typed) ==
    /\ pc = "edit_symbol"
    /\ LET new_symbol == get_input(typed) IN
       local' = [local EXCEPT !.typed_symbol = new_symbol,
                              !.new_symbol = IF new_symbol = <<>> THEN local.old_symbol
                                             ELSE new_symbol]
    /\ pc' = "edit_notes"
    /\ visit' = Read(visit)
    /\ lastCall' = TextStep(typed)
    /\ UNCHANGED <<table, seq, clock, assigned, current_row, message>>

\* StockTrackerTUI.edit_ticker, the "New Notes:" prompt: blank keeps the old
\* notes; then db.update_ticker and the message for its result.
EditNotesRead(typed) ==
    /\ pc = "edit_notes"
    /\ LET typed_notes == get_input(typed)
           new_notes == IF typed_notes = <<>> THEN local.old_notes ELSE typed_notes
           r == update_ticker(table, clock, local.ticker_id, local.new_symbol, new_notes)
       IN /\ table' = r.table
          /\ local' = [local EXCEPT !.typed_notes = typed_notes, !.new_notes = new_notes]
          /\ lastCall' = [NoCall EXCEPT !.op = "update", !.typed = typed,
                              !.id = local.ticker_id,
                              !.symbol = local.new_symbol, !.notes = new_notes,
                              !.ret = r.ret, !.path = r.path]
          /\ show_message(IF r.ret THEN "Ticker updated successfully!"
                          ELSE "Error updating ticker. Symbol may already exist.",
                          Called(Read(visit), "update"))
    /\ UNCHANGED <<seq, clock, assigned, current_row>>

\* delete_ticker asking for the id again when it is not a number.
DeleteIdRead_reprompt(typed) ==
    /\ pc = "delete_id"
    /\ LET ticker_id_str == get_input(typed)
           parsed == ParseInt(ticker_id_str)
       IN IF ticker_id_str = <<>>
          THEN /\ show_message("Operation cancelled.", Read(visit))
               /\ UNCHANGED local
          ELSE IF ~parsed.ok
          THEN /\ visit' = Read(visit)
               /\ UNCHANGED <<pc, local, message>>
          ELSE /\ pc' = "delete_confirm"
               /\ visit' = Read(visit)
               /\ local' = [local EXCEPT !.ticker_id = parsed.value]
               /\ UNCHANGED message
    /\ lastCall' = TextStep(typed)
    /\ UNCHANGED <<table, seq, clock, assigned, current_row>>

\* StockTrackerTUI.delete_ticker, from the id prompt to the confirmation
\* getch.
DeleteIdRead(typed) ==
    /\ pc = "delete_id"
    /\ LET ticker_id_str == get_input(typed)
           parsed == ParseInt(ticker_id_str)
       IN IF ticker_id_str = <<>>
          THEN /\ show_message("Operation cancelled.", Read(visit))
               /\ UNCHANGED local
          ELSE IF ~parsed.ok
          THEN /\ show_message("Invalid ID. Must be a number.", Read(visit))
               /\ UNCHANGED local
          ELSE /\ pc' = "delete_confirm"
               /\ visit' = Read(visit)
               /\ local' = [local EXCEPT !.ticker_id = parsed.value]
               /\ UNCHANGED message
    /\ lastCall' = TextStep(typed)
    /\ UNCHANGED <<table, seq, clock, assigned, current_row>>

\* delete_ticker cancelling only on n or N.
DeleteConfirmKey_unlessN(confirm) ==
    /\ pc = "delete_confirm"
    /\ IF LowerChar(confirm) # KeyLowerN
       THEN LET r == delete_ticker(table, local.ticker_id) IN
            /\ table' = r.table
            /\ lastCall' = [NoCall EXCEPT !.op = "delete", !.key = confirm,
                                !.id = local.ticker_id, !.ret = r.ret]
            /\ show_message(IF r.ret THEN "Ticker deleted successfully!"
                            ELSE "not found.",
                            Called(Read(visit), "delete"))
       ELSE /\ lastCall' = KeyStep(confirm)
            /\ show_message("Deletion cancelled.", Read(visit))
            /\ UNCHANGED table
    /\ UNCHANGED <<seq, clock, assigned, current_row, local>>

\* StockTrackerTUI.delete_ticker, the "Are you sure? (y/n)" getch: y or Y
\* calls db.delete_ticker, any other key cancels.
DeleteConfirmKey(confirm) ==
    /\ pc = "delete_confirm"
    /\ IF LowerChar(confirm) = KeyLowerY
       THEN LET r == delete_ticker(table, local.ticker_id) IN
            /\ table' = r.table
            /\ lastCall' = [NoCall EXCEPT !.op = "delete", !.key = confirm,
                                !.id = local.ticker_id, !.ret = r.ret]
            /\ show_message(IF r.ret THEN "Ticker deleted successfully!"
                            ELSE "not found.",
                            Called(Read(visit), "delete"))
       ELSE /\ lastCall' = KeyStep(confirm)
            /\ show_message("Deletion cancelled.", Read(visit))
            /\ UNCHANGED table
    /\ UNCHANGED <<seq, clock, assigned, current_row, local>>

\* A second passes while the console is running.
TickTUI == pc # "exited" /\ Tick

NextTUI ==
    \/ TickTUI
    \/ \E key \in MenuKeys : MenuKey(key)
    \/ \E key \in AnyKeys : MessageKey(key)
    \/ \E typed \in TypedSymbols : AddSymbolRead(typed)
    \/ \E typed \in TypedAddNotes : AddNotesRead(typed)
    \/ \E typed \in TypedIds : EditIdRead(typed)
    \/ \E typed \in TypedSymbols : EditSymbolRead(typed)
    \/ \E typed \in TypedEditNotes : EditNotesRead(typed)
    \/ \E typed \in TypedIds : DeleteIdRead(typed)
    \/ \E confirm \in ConfirmKeys : DeleteConfirmKey(confirm)

\* The application: StockTrackerTUI(stdscr).run() on a fresh stocks.db.
SpecTUI == Init /\ [][NextTUI]_vars

\* The reads a screen method blocks in (getstr, the confirmation getch, the
\* getch of show_message) returning.
SubScreenStep ==
    \/ \E key \in AnyKeys : MessageKey(key)
    \/ \E typed \in TypedSymbols : AddSymbolRead(typed)
    \/ \E typed \in TypedAddNotes : AddNotesRead(typed)
    \/ \E typed \in TypedIds : EditIdRead(typed)
    \/ \E typed \in TypedSymbols : EditSymbolRead(typed)
    \/ \E typed \in TypedEditNotes : EditNotesRead(typed)
    \/ \E typed \in TypedIds : DeleteIdRead(typed)
    \/ \E confirm \in ConfirmKeys : DeleteConfirmKey(confirm)

\* The application with a user who answers every prompt of a sub-screen:
\* a blocking read that has input to return does return.
SpecTUILive == Init /\ [][NextTUI]_vars /\ WF_vars(SubScreenStep)

\* ------------------------------------------------------------------ claims
\* The rows get_all_tickers returns whose symbol is sym.
RowsWithSymbol(rows, sym) == {k \in 1..Len(rows) : rows[k][2] = sym}

\* Some row other than `self` holds sym (stated on the table, independently
\* of the schema operators).
HeldByOther(tbl, sym, self) == \E i \in DOMAIN tbl : i # self /\ tbl[i].symbol = sym

\* C1: after any sequence of add, update and delete calls no two stored
\* records have the same symbol, and every stored symbol equals its own
\* uppercase form.
C1_UniqueUpperSymbols ==
    /\ \A i, j \in DOMAIN table : i # j => table[i].symbol # table[j].symbol
    /\ \A i \in DOMAIN table : table[i].symbol = Upper(table[i].symbol)

\* C1 witness: two records are stored after an update that was given a
\* lower-case symbol and succeeded.
C1_Witness ==
    /\ Cardinality(DOMAIN table) = 2
    /\ lastCall.op = "update" /\ lastCall.ret /\ lastCall.symbol = aapl
    /\ table[lastCall.id].symbol = AAPL

\* C2: right after add(s, notes), whether it returned True or False, list()
\* holds exactly one record whose symbol is uppercase(s).
C2_AddThenListOne ==
    lastCall.op = "add" =>
        Cardinality(RowsWithSymbol(get_all_tickers(table), Upper(lastCall.symbol))) = 1

\* C2 witness: an add of the lower-case "aapl" was refused, two records are
\* stored and list() shows AAPL once.
C2_Witness ==
    /\ lastCall.op = "add" /\ ~lastCall.ret /\ lastCall.symbol = aapl
    /\ Len(get_all_tickers(table)) = 2
    /\ Cardinality(RowsWithSymbol(get_all_tickers(table), AAPL)) = 1

\* C3: add(s, notes) when a record with symbol uppercase(s) exists returns
\* False (duplicate) and leaves the table as it was.
C3_DuplicateAddNoChange ==
    [][(lastCall'.op = "add" /\ HeldByOther(table, Upper(lastCall'.symbol), 0))
          => (lastCall'.ret = FALSE /\ table' = table)]_vars

\* C3 witness: add("aapl", "tech giant") was refused while AAPL is stored with
\* other notes.
C3_Witness ==
    /\ lastCall.op = "add" /\ ~lastCall.ret
    /\ lastCall.symbol = aapl /\ lastCall.notes = TechGiant
    /\ \E i \in DOMAIN table : table[i].symbol = AAPL /\ table[i].notes = NewNote

\* C4: delete(id) of an id not in the table returns False and changes
\* nothing; delete(id) of a stored id returns True and removes that row only;
\* an id once removed never comes back, so a later delete(id) - the next call
\* or any later one - returns False.
C4_Delete ==
    [][/\ (lastCall'.op = "delete" /\ lastCall'.id \notin DOMAIN table)
            => (lastCall'.ret = FALSE /\ table' = table)
       /\ (lastCall'.op = "delete" /\ lastCall'.id \in DOMAIN table)
            => /\ lastCall'.ret = TRUE
               /\ DOMAIN table' = DOMAIN table \ {lastCall'.id}
               /\ \A i \in DOMAIN table' : table'[i] = table[i]
       /\ (lastCall.op = "delete" /\ lastCall.ret /\ lastCall'.op = "delete"
              /\ lastCall'.id = lastCall.id)
            => lastCall'.ret = FALSE
       /\ \A i \in assigned \ DOMAIN table : i \notin DOMAIN table'
      ]_vars

\* C4 witness: delete of an id that was assigned and is no longer stored was
\* answered False, with another record still stored.
C4_Witness ==
    /\ lastCall.op = "delete" /\ ~lastCall.ret
    /\ lastCall.id \in assigned \ DOMAIN table
    /\ DOMAIN table # {}

\* C5 (as claimed): update tells its outcomes apart by the returned value:
\* two update calls that ended differently (row written, zero rows affected,
\* IntegrityError) never return the same value.
C5_ThreeOutcomes ==
    [][(lastCall.op = "update" /\ lastCall'.op = "update"
           /\ lastCall'.path # lastCall.path)
          => lastCall'.ret # lastCall.ret]_vars

\* C5 (amended): update returns True exactly when a row has that id and
\* uppercase(symbol) is not held by a different record; it returns the same
\* False when no row has that id and when the symbol is held by another
\* record.
C5_TwoOutcomes ==
    [][lastCall'.op = "update" =>
          /\ lastCall'.ret \in BOOLEAN
          /\ lastCall'.ret = TRUE <=>
                (/\ lastCall'.id \in DOMAIN table
                 /\ ~HeldByOther(table, Upper(lastCall'.symbol), lastCall'.id))
          /\ (lastCall'.id \notin DOMAIN table) => lastCall'.ret = FALSE
          /\ (/\ lastCall'.id \in DOMAIN table
              /\ HeldByOther(table, Upper(lastCall'.symbol), lastCall'.id))
                => lastCall'.ret = FALSE
      ]_vars

\* C5 witness: an update of an id that is not stored returned False while
\* other records are stored.
C5_Witness ==
    /\ lastCall.op = "update" /\ lastCall.ret = FALSE
    /\ lastCall.id \notin DOMAIN table
    /\ DOMAIN table # {}
    /\ ~HeldByOther(table, Upper(lastCall.symbol), lastCall.id)

\* C6: a successful add never assigns an id that any earlier record was
\* given, deleted records included.
C6_IdsNeverReused ==
    [][(lastCall'.op = "add" /\ lastCall'.ret)
          => /\ lastCall'.id \notin assigned
             /\ lastCall'.id \notin DOMAIN table
             /\ lastCall'.id \in DOMAIN table'
             /\ assigned' = assigned \cup {lastCall'.id}]_vars

\* C6 witness: an add succeeded after the record with the largest id so far
\* had been deleted.
C6_Witness ==
    /\ lastCall.op = "add" /\ lastCall.ret
    /\ lastCall.id \in DOMAIN table
    /\ \E d \in assigned \ DOMAIN table :
          \A i \in DOMAIN table \ {lastCall.id} : i < d

\* C7 (as claimed): every successful update sets updated_at strictly later
\* than it was and leaves created_at unchanged.
C7_StrictlyLater ==
    [][(lastCall'.op = "update" /\ lastCall'.ret)
          => /\ table'[lastCall'.id].updated_at > table[lastCall'.id].updated_at
             /\ table'[lastCall'.id].created_at = table[lastCall'.id].created_at]_vars

\* C7 (amended): every successful update sets updated_at to the current
\* timestamp, which is never earlier than the value it had, and leaves
\* created_at unchanged.
C7_NotEarlier ==
    [][(lastCall'.op = "update" /\ lastCall'.ret)
          => /\ table'[lastCall'.id].updated_at = clock
             /\ table'[lastCall'.id].updated_at >= table[lastCall'.id].updated_at
             /\ table'[lastCall'.id].created_at = table[lastCall'.id].created_at]_vars

\* C7 witness: a successful update has left updated_at later than created_at.
C7_Witness ==
    /\ lastCall.op = "update" /\ lastCall.ret
    /\ table[lastCall.id].updated_at > table[lastCall.id].created_at

\* C8: update touches only the target row: the set of ids is unchanged and
\* every record with another id is as it was, whatever update returns.
C8_UpdateFrame ==
    [][lastCall'.op = "update"
          => /\ DOMAIN table' = DOMAIN table
             /\ \A i \in DOMAIN table \ {lastCall'.id} : table'[i] = table[i]]_vars

\* C8 witness: an update succeeded and changed its row while another record
\* is stored.
C8_Witness ==
    /\ lastCall.op = "update" /\ lastCall.ret
    /\ Cardinality(DOMAIN table) = 2
    /\ table[lastCall.id].notes = NewNote
    /\ \E i \in DOMAIN table \ {lastCall.id} : table[i].notes = TechGiant

\* C9: an update that ends in duplicate symbol or id not found (it returns
\* False) leaves the whole table, and the id counter, as they were.
C9_FailedUpdateNoEffect ==
    [][(lastCall'.op = "update" /\ lastCall'.ret = FALSE)
          => (table' = table /\ seq' = seq)]_vars

\* C9 witness: an update was refused for a duplicate symbol, and the target
\* record still has the notes and timestamp of its creation.
C9_Witness ==
    /\ lastCall.op = "update" /\ lastCall.ret = FALSE
    /\ lastCall.path = "IntegrityError"
    /\ lastCall.id \in DOMAIN table
    /\ table[lastCall.id].notes = TechGiant
    /\ table[lastCall.id].updated_at < clock

\* C10 (as claimed): update called with a blank symbol keeps the record's
\* existing symbol and sets its notes: after add("aapl", "tech giant"),
\* update(1, "", "new note") leaves the symbol "AAPL".
C10_BlankKeepsSymbol ==
    [][(lastCall'.op = "update" /\ lastCall'.symbol = Blank
           /\ lastCall'.id \in DOMAIN table)
          => /\ table'[lastCall'.id].symbol = table[lastCall'.id].symbol
             /\ table'[lastCall'.id].notes = lastCall'.notes]_vars

\* C10 (amended): update called with a blank symbol writes the blank symbol:
\* if no other record holds it, update returns True and the record's symbol
\* becomes "" and its notes the given notes; if another record holds it,
\* update returns False and nothing changes.
C10_BlankStoresBlank ==
    [][(lastCall'.op = "update" /\ lastCall'.symbol = Blank
           /\ lastCall'.id \in DOMAIN table)
          => IF HeldByOther(table, Blank, lastCall'.id)
             THEN lastCall'.ret = FALSE /\ table' = table
             ELSE /\ lastCall'.ret = TRUE
                  /\ table'[lastCall'.id].symbol = Blank
                  /\ table'[lastCall'.id].notes = lastCall'.notes]_vars

\* C10 witness: update(1, "", "new note") returned True on the only record
\* ever added, whose symbol is now "" and whose notes are "new note".
C10_Witness ==
    /\ lastCall.op = "update" /\ lastCall.ret
    /\ lastCall.id = 1 /\ lastCall.symbol = Blank /\ lastCall.notes = NewNote
    /\ assigned = {1}
    /\ table[1].symbol = Blank /\ table[1].notes = NewNote

\* a sorts strictly before b, character code by character code, a proper
\* prefix first (stated for the claims, independently of LexLess).
RECURSIVE SymbolBefore(_, _)
SymbolBefore(a, b) ==
    IF b = <<>> THEN FALSE
    ELSE IF a = <<>> THEN TRUE
    ELSE IF Head(a) # Head(b) THEN Head(a) < Head(b)
    ELSE SymbolBefore(Tail(a), Tail(b))

\* C11: list() returns every stored record exactly once, in ascending order
\* of symbol; the empty sequence for an empty table; and it leaves the table
\* as it was.
C11_ListSorted ==
    [][lastCall'.op = "list" =>
          LET rows == lastCall'.rows IN
          /\ Len(rows) = Cardinality(DOMAIN table)
          /\ {rows[k][1] : k \in 1..Len(rows)} = DOMAIN table
          /\ \A k \in 1..Len(rows) :
                /\ rows[k][2] = table[rows[k][1]].symbol
                /\ rows[k][3] = table[rows[k][1]].notes
          /\ \A k \in 1..(Len(rows) - 1) : SymbolBefore(rows[k][2], rows[k + 1][2])
          /\ (DOMAIN table = {}) => rows = <<>>
          /\ table' = table /\ seq' = seq
      ]_vars

\* C11 witness: list() returned two records, the later-added one first.
C11_Witness ==
    /\ lastCall.op = "list"
    /\ Len(lastCall.rows) = 2
    /\ lastCall.rows[1][1] > lastCall.rows[2][1]
    /\ SymbolBefore(lastCall.rows[1][2], lastCall.rows[2][2])

\* C19: init_database() called again leaves every record, its timestamps
\* and the id counter as they were, and the add that follows it gets the id
\* one above every id assigned so far, as it would have without the call.
C19_InitializeIdempotent ==
    [][/\ lastCall'.op = "init_database"
            => (table' = table /\ seq' = seq /\ assigned' = assigned)
       /\ (lastCall.op = "init_database" /\ lastCall'.op = "add" /\ lastCall'.ret)
            => lastCall'.id = (IF assigned = {} THEN 1 ELSE SetMax(assigned) + 1)
      ]_vars

\* C19 witness: init_database() was called again on a table that holds a
\* record and has had a later record deleted.
C19_Witness ==
    /\ lastCall.op = "init_database"
    /\ DOMAIN table # {}
    /\ \E d \in assigned \ DOMAIN table : \A i \in DOMAIN table : i < d

\* A step of the console other than the passing of time.
ConsoleStep == lastCall'.op # "tick"

\* t is a decimal integer, sign allowed (stated for the claims).
IsIntegerText(t) ==
    \E sign \in {<<>>, <<43>>, <<45>>} : \E n \in 1..3 :
        \E d \in [1..n -> 48..57] : t = sign \o d

\* C12: input that fails the console's validation never reaches the store:
\* a blank symbol in Add, a blank or non-numeric id in Edit or Delete, and a
\* confirmation other than y/Y in Delete each lead to the message wait with
\* no store call made in the visit and the table unchanged, and the key
\* pressed there returns to the main menu, again without a store call.
C12_ValidationLocal ==
    [][/\ (ConsoleStep /\ pc = "add_symbol" /\ Strip(lastCall'.typed) = <<>>)
            => (pc' = "message" /\ lastCall'.op = "none" /\ visit'.calls = <<>>
                /\ table' = table /\ seq' = seq)
       /\ (ConsoleStep /\ pc \in {"edit_id", "delete_id"}
              /\ ~IsIntegerText(Strip(lastCall'.typed)))
            => (pc' = "message" /\ lastCall'.op = "none" /\ visit'.calls = <<>>
                /\ table' = table /\ seq' = seq)
       /\ (ConsoleStep /\ pc = "delete_confirm"
              /\ lastCall'.key \notin {KeyLowerY, KeyUpperY})
            => (pc' = "message" /\ lastCall'.op = "none" /\ visit'.calls = <<>>
                /\ table' = table /\ seq' = seq)
       /\ (ConsoleStep /\ pc = "message")
            => (pc' = "menu" /\ lastCall'.op = "none" /\ table' = table /\ seq' = seq)
      ]_vars

\* C12 witness: a blank symbol (a space was typed) cancelled an Add while a
\* record is stored.
C12_Witness ==
    /\ pc = "message" /\ message = "Operation cancelled."
    /\ visit.screen = "add" /\ visit.calls = <<>>
    /\ lastCall.typed = <<32>>
    /\ DOMAIN table # {}

\* C13: in Delete, db.delete_ticker is called only on the keypress y or Y at
\* the confirmation; on every other key the deletion is cancelled, nothing is
\* called and no record is removed.
C13_DeleteNeedsYes ==
    [][/\ (ConsoleStep /\ pc = "delete_confirm")
            => IF lastCall'.key \in {KeyLowerY, KeyUpperY}
               THEN lastCall'.op = "delete" /\ lastCall'.id = local.ticker_id
               ELSE /\ lastCall'.op = "none"
                    /\ message' = "Deletion cancelled."
                    /\ table' = table
       /\ lastCall'.op = "delete"
            => (pc = "delete_confirm" /\ lastCall'.key \in {KeyLowerY, KeyUpperY})
       /\ DOMAIN table' # DOMAIN table /\ Cardinality(DOMAIN table') < Cardinality(DOMAIN table)
            => lastCall'.op = "delete"
      ]_vars

\* C13 witness: q at the confirmation cancelled the deletion of a record
\* that is still stored.
C13_Witness ==
    /\ pc = "message" /\ message = "Deletion cancelled."
    /\ lastCall.key = KeyLowerQ
    /\ local.ticker_id \in DOMAIN table

\* t is the decimal text of a positive integer (stated for the claims).
IsPositiveIntegerText(t) ==
    /\ IsIntegerText(t)
    /\ t[1] # 45
    /\ \E i \in 1..Len(t) : t[i] >= 49 /\ t[i] <= 57

\* C14 (as claimed): in Edit every id input that is not a positive integer
\* (non-numeric text, zero, a negative integer) is rejected with a message
\* and no store call of any kind is made for it.
C14_PositiveOnly ==
    [][(ConsoleStep /\ pc = "edit_id" /\ ~IsPositiveIntegerText(Strip(lastCall'.typed)))
          => (pc' = "message" /\ lastCall'.op = "none" /\ visit'.calls = <<>>)]_vars

\* C14 (amended): in Edit every id input that is not an integer (blank or
\* non-numeric) is rejected with a message and no store call; zero or a
\* negative integer passes the check, is looked up with get_all_tickers (one
\* read, the table unchanged) and is reported as not found.
C14_IntegerOnly ==
    [][/\ (ConsoleStep /\ pc = "edit_id" /\ ~IsIntegerText(Strip(lastCall'.typed)))
            => /\ pc' = "message"
               /\ message' \in {"Operation cancelled.", "Invalid ID. Must be a number."}
               /\ lastCall'.op = "none" /\ visit'.calls = <<>>
               /\ table' = table
       /\ (ConsoleStep /\ pc = "edit_id" /\ IsIntegerText(Strip(lastCall'.typed))
              /\ ~IsPositiveIntegerText(Strip(lastCall'.typed)))
            => /\ pc' = "message"
               /\ message' = "not found."
               /\ lastCall'.op = "list" /\ visit'.calls = <<"list">>
               /\ table' = table /\ seq' = seq
      ]_vars

\* C14 witness: "-1" typed at the Edit id prompt was looked up and reported
\* as not found while a record is stored.
C14_Witness ==
    /\ pc = "message" /\ message = "not found."
    /\ visit.screen = "edit" /\ visit.calls = <<"list">>
    /\ lastCall.typed = <<45, 49>> /\ local.ticker_id = 0 - 1
    /\ DOMAIN table # {}

\* C15: in Edit, for a stored record, update is called with the old symbol
\* when the typed symbol is blank and with the old notes when the typed notes
\* are blank; with both blank it returns True and the record's symbol and
\* notes stay as they were; an id not found at the lookup is reported
\* without update being called (update is called from the notes prompt only).
C15_EditDefaults ==
    [][/\ (ConsoleStep /\ pc = "edit_notes")
            => LET id == local.ticker_id
                   typed_notes == Strip(lastCall'.typed)
               IN /\ lastCall'.op = "update" /\ lastCall'.id = id
                  /\ id \in DOMAIN table
                  /\ lastCall'.symbol = IF local.typed_symbol = <<>>
                                        THEN table[id].symbol ELSE local.typed_symbol
                  /\ lastCall'.notes = IF typed_notes = <<>>
                                       THEN table[id].notes ELSE typed_notes
                  /\ (local.typed_symbol = <<>> /\ typed_notes = <<>>)
                        => /\ lastCall'.ret = TRUE
                           /\ message' = "Ticker updated successfully!"
                           /\ table'[id].symbol = table[id].symbol
                           /\ table'[id].notes = table[id].notes
       /\ (ConsoleStep /\ pc = "edit_id" /\ message' = "not found.")
            => (pc' = "message" /\ lastCall'.op = "list" /\ table' = table)
       /\ lastCall'.op = "update" => pc = "edit_notes"
      ]_vars

\* C15 witness: an Edit with both fields left blank reported success and the
\* record still has the symbol and notes it was added with.
C15_Witness ==
    /\ pc = "message" /\ message = "Ticker updated successfully!"
    /\ local.typed_symbol = <<>> /\ local.typed_notes = <<>>
    /\ lastCall.op = "update" /\ lastCall.ret
    /\ table[local.ticker_id].symbol = AAPL
    /\ table[local.ticker_id].notes = TechGiant
    /\ Cardinality(DOMAIN table) = 2

\* C16: the highlighted row is always one of the five items 0..4; Up at the
\* first item and Down at the last leave it, Up and Down elsewhere move it by
\* one, every other key and every step outside the main menu leave it.
C16_HighlightClamped ==
    /\ [](current_row \in 0..4)
    /\ [][/\ (ConsoleStep /\ pc = "menu")
               => current_row' =
                     (IF lastCall'.key = KEY_UP
                      THEN (IF current_row = 0 THEN 0 ELSE current_row - 1)
                      ELSE IF lastCall'.key = KEY_DOWN
                      THEN (IF current_row = 4 THEN 4 ELSE current_row + 1)
                      ELSE current_row)
          /\ pc # "menu" => current_row' = current_row
         ]_vars

\* C16 witness: Down was pressed and the last item is highlighted.
C16_Witness ==
    /\ pc = "menu" /\ current_row = 4
    /\ lastCall.op = "none" /\ lastCall.key = KEY_DOWN

\* C17: at the main menu q or Q ends the loop at once, whatever is
\* highlighted and with no store call; the loop ends only that way or by
\* Enter on Exit; no step of a sub-screen ends it; once ended it stays ended.
C17_QuitFromMenu ==
    [][/\ (ConsoleStep /\ pc = "menu" /\ lastCall'.key \in {KeyLowerQ, KeyUpperQ})
            => (pc' = "exited" /\ lastCall'.op = "none"
                /\ table' = table /\ seq' = seq)
       /\ (pc # "exited" /\ pc' = "exited")
            => /\ pc = "menu"
               /\ \/ lastCall'.key \in {KeyLowerQ, KeyUpperQ}
                  \/ (lastCall'.key = KeyEnter /\ current_row = 4)
       /\ pc = "exited" => pc' = "exited"
      ]_vars

\* C17 witness: Q ended the loop with Edit highlighted and a record stored.
C17_Witness ==
    /\ pc = "exited" /\ current_row = 2
    /\ lastCall.key = KeyUpperQ
    /\ DOMAIN table # {}

\* C18: a screen visit waits in show_message exactly once, as its last step:
\* the console is at the wait exactly when the visit has waited once, Enter on
\* View, Add, Edit or Delete blocks in the screen, and the menu is reached
\* again only from that wait, by its keypress.
C18_OneWaitPerVisit ==
    /\ [](visit.waits <= 1 /\ (pc = "message" <=> visit.waits = 1))
    /\ [][/\ (pc # "menu" /\ pc' = "menu")
               => (pc = "message" /\ visit.waits = 1 /\ lastCall'.op = "none")
          /\ (ConsoleStep /\ pc = "menu" /\ lastCall'.key = KeyEnter
                 /\ current_row \in 0..3)
               => pc' \notin {"menu", "exited"}
          /\ (ConsoleStep /\ pc \notin {"menu", "message", "exited"})
               => pc' # "menu"
         ]_vars

\* C18 witness: View All shows a stored record and waits for a key.
C18_Witness ==
    /\ pc = "message" /\ message = ""
    /\ visit = [screen |-> "view", calls |-> <<"list">>, reads |-> 0, waits |-> 1]
    /\ Len(lastCall.rows) = 1

\* How many reads a screen method has still to make, at most, before it is
\* back at the menu.
StepsLeft(p) ==
    CASE p = "menu" -> 0
      [] p = "exited" -> 0
      [] p = "message" -> 1
      [] p \in {"add_notes", "edit_notes", "delete_confirm"} -> 2
      [] p \in {"add_symbol", "edit_symbol", "delete_id"} -> 3
      [] p = "edit_id" -> 4

\* The store calls of a visit that write.
Mutations(calls) == {k \in 1..Len(calls) : calls[k] \in {"add", "update", "delete"}}

====
